---------------------------- MODULE Spec2Model ----------------------------
(***************************************************************************)
(* Model of retirement_streamlit_app_v10.py: the retirement income         *)
(* estimator.  The script is re-run from top to bottom whenever a widget   *)
(* changes; one run reads the widgets and computes every result.           *)
(*                                                                         *)
(* Arithmetic.  The script computes in Python floats.  The model computes  *)
(* in exact rationals [n |-> numerator, d |-> denominator > 0], always in  *)
(* lowest terms, so that equality of values is equality of records.  The   *)
(* twelfth root of line 69 is computed exactly on the growth factors that  *)
(* have a rational twelfth root (MonthlyFactors); the annual rates of the  *)
(* model are drawn from those factors, since the twelfth root of a         *)
(* slider value 1.01 .. 1.12 is irrational.                                *)
(***************************************************************************)
EXTENDS Integers, FiniteSets, Sequences, TLC

VARIABLES
    today,      \* datetime.date.today(), the reference date of the session
    inputs,     \* the widgets' values (lines 13-65)
    out,        \* the results of the latest run of the script (lines 78-162)
    fv_call     \* the latest call of future_value: its arguments and result

vars == <<today, inputs, out, fv_call>>

----------------------------------------------------------------------------
(* Exact rational arithmetic, standing for Python's float operators.       *)

Abs(x) == IF x < 0 THEN -x ELSE x

\* Euclid's algorithm on naturals (x and y name the values of the arguments)
RECURSIVE Gcd(_, _)
Gcd(a, b) ==
    IF b = 0 THEN a
    ELSE CHOOSE g \in {Gcd(x, y) : x \in {b}, y \in {a % b}} : TRUE

\* n/d in lowest terms with a positive denominator (d # 0)
Rat(n, d) ==
    LET g == Gcd(Abs(n), Abs(d))
        s == IF d < 0 THEN -1 ELSE 1
    IN  [n |-> s * (n \div g), d |-> s * (d \div g)]

FromInt(i) == [n |-> i, d |-> 1]

Zero == FromInt(0)
One == FromInt(1)

RAdd(a, b) ==
    LET g == Gcd(a.d, b.d)
    IN  Rat(a.n * (b.d \div g) + b.n * (a.d \div g), (a.d \div g) * b.d)

RNeg(a) == [n |-> -a.n, d |-> a.d]

RSub(a, b) == RAdd(a, RNeg(b))

RMul(a, b) ==
    LET g1 == Gcd(Abs(a.n), b.d)
        g2 == Gcd(Abs(b.n), a.d)
    IN  Rat((a.n \div g1) * (b.n \div g2), (a.d \div g2) * (b.d \div g1))

\* 1/a, for a # 0
RInv(a) == IF a.n > 0 THEN [n |-> a.d, d |-> a.n] ELSE [n |-> -a.d, d |-> -a.n]

\* a / b, for b # 0 (Python raises ZeroDivisionError otherwise)
RDiv(a, b) == RMul(a, RInv(b))

RLe(a, b) ==
    LET g == Gcd(a.d, b.d)
    IN  a.n * (b.d \div g) <= b.n * (a.d \div g)

RLt(a, b) == RLe(a, b) /\ a # b

RMin(a, b) == IF RLe(a, b) THEN a ELSE b

RMax(a, b) == IF RLe(a, b) THEN b ELSE a

\* b ** k on integers, k >= 0
RECURSIVE IntPow(_, _)
IntPow(b, k) ==
    IF k = 0 THEN 1
    ELSE CHOOSE p \in {x * IntPow(x, y) : x \in {b}, y \in {k - 1}} : TRUE

\* a ** k for an integer k and a # 0; a power of lowest terms is in lowest terms
RPow(a, k) ==
    IF k < 0
    THEN [n |-> IntPow(RInv(a).n, -k), d |-> IntPow(RInv(a).d, -k)]
    ELSE [n |-> IntPow(a.n, k), d |-> IntPow(a.d, k)]

----------------------------------------------------------------------------
(* future_value, lines 68-75                                               *)

\* 1 + monthly rate for the growth factors the model draws its rates from
MonthlyFactors == {One, Rat(3, 2), FromInt(2), Rat(1, 2)}

\* the pairs <<q ** 12, q>>
TwelfthPowers == {<<RPow(q, 12), q>> : q \in MonthlyFactors}

\* x ** (1 / 12), on the factors whose twelfth root is rational
TwelfthRoot(x) == (CHOOSE p \in TwelfthPowers : p[1] = x)[2]

\* the annual rates whose monthly rate is exact: 0, two positive, one in (-1, 0)
AnnualRates == {RSub(RPow(q, 12), One) : q \in MonthlyFactors}

\* future_value with the series' "- 1" left out
future_value_no_minus_one(present_value, monthly_contribution, annual_rate, months) ==
    LET monthly_rate == RSub(TwelfthRoot(RAdd(One, annual_rate)), One)
        growth == RPow(RAdd(One, monthly_rate), months)
        fv_lump == RMul(present_value, growth)
        fv_series ==
            IF monthly_rate # Zero
            THEN RMul(monthly_contribution, RDiv(growth, monthly_rate))
            ELSE RMul(monthly_contribution, FromInt(months))
    IN  RAdd(fv_lump, fv_series)

\* future_value with the lump sum discounted instead of compounded
future_value_discounting(present_value, monthly_contribution, annual_rate, months) ==
    LET monthly_rate == RSub(TwelfthRoot(RAdd(One, annual_rate)), One)
        growth == RPow(RAdd(One, monthly_rate), months)
        fv_lump == RMul(present_value, RPow(RAdd(One, monthly_rate), -months))
        fv_series ==
            IF monthly_rate # Zero
            THEN RMul(monthly_contribution, RDiv(RSub(growth, One), monthly_rate))
            ELSE RMul(monthly_contribution, FromInt(months))
    IN  RAdd(fv_lump, fv_series)

\* future_value with one contribution too many on the zero-rate branch
future_value_fallback_off_by_one(present_value, monthly_contribution, annual_rate, months) ==
    LET monthly_rate == RSub(TwelfthRoot(RAdd(One, annual_rate)), One)
        growth == RPow(RAdd(One, monthly_rate), months)
        fv_lump == RMul(present_value, growth)
        fv_series ==
            IF monthly_rate # Zero
            THEN RMul(monthly_contribution, RDiv(RSub(growth, One), monthly_rate))
            ELSE RMul(monthly_contribution, FromInt(months + 1))
    IN  RAdd(fv_lump, fv_series)

future_value(present_value, monthly_contribution, annual_rate, months) ==
    LET monthly_rate == RSub(TwelfthRoot(RAdd(One, annual_rate)), One)
        growth == RPow(RAdd(One, monthly_rate), months)
        fv_lump == RMul(present_value, growth)
        fv_series ==
            IF monthly_rate # Zero
            THEN RMul(monthly_contribution, RDiv(RSub(growth, One), monthly_rate))
            ELSE RMul(monthly_contribution, FromInt(months))
    IN  RAdd(fv_lump, fv_series)

----------------------------------------------------------------------------
(* Calendar dates (datetime.date) and dateutil's relativedelta             *)

MkDate(y, m, d) == [year |-> y, month |-> m, day |-> d]

IsLeap(y) == (y % 4 = 0 /\ y % 100 # 0) \/ y % 400 = 0

DaysInMonth(y, m) ==
    IF m = 2 THEN (IF IsLeap(y) THEN 29 ELSE 28)
    ELSE IF m \in {4, 6, 9, 11} THEN 30 ELSE 31

\* date comparison, a < b and a <= b
DateLt(a, b) ==
    \/ a.year < b.year
    \/ a.year = b.year /\ a.month < b.month
    \/ a.year = b.year /\ a.month = b.month /\ a.day < b.day

DateLe(a, b) == a = b \/ DateLt(a, b)

\* date + relativedelta(months=k): the day is clipped to the month's length
AddMonths(dt, k) ==
    LET total == dt.year * 12 + (dt.month - 1) + k
        y == total \div 12
        m == (total % 12) + 1
    IN  MkDate(y, m, IF dt.day > DaysInMonth(y, m) THEN DaysInMonth(y, m) ELSE dt.day)

\* relativedelta._set_months: the years part of a signed month count
YearsOfMonths(months) ==
    IF months < 0 THEN -((-months) \div 12) ELSE months \div 12

\* relativedelta(dt1, dt2): the month count, stepped back while dt2 + months
\* overshoots dt1
RECURSIVE DeltaMonths(_, _, _)
DeltaMonths(dt1, dt2, months) ==
    IF DateLt(dt1, dt2)
    THEN IF DateLt(AddMonths(dt2, months), dt1)
         THEN DeltaMonths(dt1, dt2, months + 1) ELSE months
    ELSE IF DateLt(dt1, AddMonths(dt2, months))
         THEN DeltaMonths(dt1, dt2, months - 1) ELSE months

\* relativedelta(dt1, dt2).years
relativedelta_years(dt1, dt2) ==
    YearsOfMonths(DeltaMonths(dt1, dt2,
        (dt1.year - dt2.year) * 12 + (dt1.month - dt2.month)))

\* lines 83-85 without the day-of-month correction
months_to_retirement_no_day_correction(retirement_date, t) ==
    (retirement_date.year - t.year) * 12 + (retirement_date.month - t.month)

\* lines 83-85
months_to_retirement(retirement_date, t) ==
    LET m == (retirement_date.year - t.year) * 12 + (retirement_date.month - t.month)
    IN  IF retirement_date.day < t.day THEN m - 1 ELSE m

\* the date widgets' min_value / max_value, lines 13-24
DobAccepted(dob, t) == DateLe(MkDate(1900, 1, 1), dob) /\ DateLe(dob, t)

RetirementAccepted(retirement_date, t) ==
    DateLe(t, retirement_date) /\ DateLe(retirement_date, MkDate(2099, 12, 31))

----------------------------------------------------------------------------
(* The steps of the script, lines 103-162                                  *)

Band1Upper == 12570
Band2Upper == 50270
Band3Upper == 125140

DrawdownRate == Rat(4, 100)

\* lines 104-107 without the max(..., 0)
equity_released_unclamped(current_house_value, future_house_price, mortgage_outstanding) ==
    current_house_value - future_house_price - mortgage_outstanding

\* lines 104-107
equity_released(current_house_value, future_house_price, mortgage_outstanding) ==
    LET e == current_house_value - future_house_price - mortgage_outstanding
    IN  IF e > 0 THEN e ELSE 0

\* line 110 with > for >=
db_income_effective_strict(db_income, age_at_retirement, db_payout_age) ==
    IF age_at_retirement > db_payout_age THEN db_income ELSE 0

\* line 110
db_income_effective(db_income, age_at_retirement, db_payout_age) ==
    IF age_at_retirement >= db_payout_age THEN db_income ELSE 0

\* a slab tax: the whole income at the rate of the band it ends in
tax_slab(total_gross_income) ==
    IF RLe(total_gross_income, FromInt(Band1Upper)) THEN Zero
    ELSE IF RLe(total_gross_income, FromInt(Band2Upper))
         THEN RMul(total_gross_income, Rat(20, 100))
    ELSE IF RLe(total_gross_income, FromInt(Band3Upper))
         THEN RMul(total_gross_income, Rat(40, 100))
    ELSE RMul(total_gross_income, Rat(45, 100))

\* band 2 as wide as its upper bound
tax_band2_width(total_gross_income) ==
    LET band2 == RMin(RMax(Zero, RSub(total_gross_income, FromInt(Band1Upper))),
                      FromInt(Band2Upper))
        band3 == RMin(RMax(Zero, RSub(total_gross_income, FromInt(Band2Upper))),
                      FromInt(Band3Upper - Band2Upper))
        band4 == RMax(Zero, RSub(total_gross_income, FromInt(Band3Upper)))
    IN  RAdd(RAdd(RMul(band2, Rat(20, 100)), RMul(band3, Rat(40, 100))),
             RMul(band4, Rat(45, 100)))

\* lines 127-146
tax(total_gross_income) ==
    LET band2 == RMin(RMax(Zero, RSub(total_gross_income, FromInt(Band1Upper))),
                      FromInt(Band2Upper - Band1Upper))
        band3 == RMin(RMax(Zero, RSub(total_gross_income, FromInt(Band2Upper))),
                      FromInt(Band3Upper - Band2Upper))
        band4 == RMax(Zero, RSub(total_gross_income, FromInt(Band3Upper)))
    IN  RAdd(RAdd(RMul(band2, Rat(20, 100)), RMul(band3, Rat(40, 100))),
             RMul(band4, Rat(45, 100)))

\* lines 152-156
proportion(gross, total_gross_income) ==
    IF RLt(Zero, total_gross_income) THEN RDiv(gross, total_gross_income) ELSE Zero

\* lines 158-162
net_of_source(gross, tax_total, share) == RSub(gross, RMul(tax_total, share))

\* The run of the script, a stage at a time; r holds the results so far.

\* lines 78-85
Elapsed(i, t) ==
    [age_today |-> relativedelta_years(t, i.dob),
     age_at_retirement |-> relativedelta_years(i.retirement_date, i.dob),
     months_to_retirement |-> months_to_retirement(i.retirement_date, t)]

\* lines 87-110
Projected(i, r) ==
    r @@ [pension_pot_at_retirement |->
              future_value(FromInt(i.current_pension_pot),
                           FromInt(i.monthly_pension_contribution),
                           i.pension_growth_rate, r.months_to_retirement),
          isa_pot_at_retirement |->
              future_value(FromInt(i.current_isa_pot),
                           FromInt(i.monthly_isa_contribution),
                           i.isa_growth_rate, r.months_to_retirement),
          equity_released |->
              equity_released(i.current_house_value, i.future_house_price,
                              i.mortgage_outstanding),
          db_income_effective |->
              db_income_effective(i.db_income, r.age_at_retirement, i.db_payout_age)]

\* lines 113-122
Grossed(i, r) ==
    r @@ [gross |->
             [pension |-> RMul(r.pension_pot_at_retirement, DrawdownRate),
              isa |-> RMul(r.isa_pot_at_retirement, DrawdownRate),
              equity |-> RMul(FromInt(r.equity_released), DrawdownRate),
              db |-> FromInt(r.db_income_effective),
              dividends |-> FromInt(i.dividends_annual)]]

\* line 124
Totalled(r) ==
    r @@ [total_gross_income |->
             RAdd(RAdd(RAdd(RAdd(r.gross.pension, r.gross.isa), r.gross.equity),
                       r.gross.db), r.gross.dividends)]

\* lines 127-146
Taxed(r) == r @@ [tax |-> tax(r.total_gross_income)]

\* lines 148-162
Netted(r) ==
    r @@ [net_income |-> RSub(r.total_gross_income, r.tax),
          monthly_net_income |->
              RDiv(RSub(r.total_gross_income, r.tax), FromInt(12)),
          net |-> [s \in DOMAIN r.gross |->
                      net_of_source(r.gross[s], r.tax,
                                    proportion(r.gross[s], r.total_gross_income))]]

\* one run of the script on the widgets' values i at date t, lines 78-162
Script(i, t) == Netted(Taxed(Totalled(Grossed(i, Projected(i, Elapsed(i, t))))))

----------------------------------------------------------------------------
(* The application: the widgets and the re-run of the script               *)

\* the values the widgets are given.  The slider's rates (lines 31-33, 48-50)
\* are drawn from the rates whose monthly rate is exact.
TodayChoices == {MkDate(2026, 1, 28)}
DobChoices == {MkDate(1971, 2, 28), MkDate(1976, 2, 29)}
RetirementChoices == {MkDate(2026, 1, 28), MkDate(2026, 2, 1), MkDate(2026, 2, 28),
                      MkDate(2026, 3, 31)}
DbIncomeChoices == {20000, -1000}
DbPayoutAgeChoices == {50, 55}
DividendChoices == {0, 12570, 50270, 125140}

\* <<pot, monthly contribution, annual growth rate>>
PensionChoices ==
    {<<0, 0, RSub(RPow(Rat(3, 2), 12), One)>>,
     <<100000, 2000, RSub(RPow(Rat(3, 2), 12), One)>>,
     <<100000, 2000, RSub(RPow(FromInt(2), 12), One)>>}
IsaChoices ==
    {<<0, 0, RSub(RPow(Rat(3, 2), 12), One)>>,
     <<50000, 1000, RSub(RPow(FromInt(2), 12), One)>>}

\* <<current house value, target house price, mortgage outstanding>>
HouseChoices ==
    {<<530000, 350000, 155000>>, <<530000, 600000, 155000>>,
     <<530000, 350000, -50000>>, <<-10000, -5000, 155000>>}

WithPension(i, p) ==
    [i EXCEPT !.current_pension_pot = p[1], !.monthly_pension_contribution = p[2],
              !.pension_growth_rate = p[3]]

WithIsa(i, p) ==
    [i EXCEPT !.current_isa_pot = p[1], !.monthly_isa_contribution = p[2],
              !.isa_growth_rate = p[3]]

WithHouse(i, h) ==
    [i EXCEPT !.current_house_value = h[1], !.future_house_price = h[2],
              !.mortgage_outstanding = h[3]]

InputSpace ==
    {WithHouse(WithIsa(WithPension(
        [dob |-> dob, retirement_date |-> ret, db_income |-> dbi,
         db_payout_age |-> age, dividends_annual |-> div,
         current_pension_pot |-> 0, monthly_pension_contribution |-> 0,
         pension_growth_rate |-> Zero,
         current_isa_pot |-> 0, monthly_isa_contribution |-> 0,
         isa_growth_rate |-> Zero,
         current_house_value |-> 0, future_house_price |-> 0,
         mortgage_outstanding |-> 0], p), s), h) :
        dob \in DobChoices, ret \in RetirementChoices, dbi \in DbIncomeChoices,
        age \in DbPayoutAgeChoices, div \in DividendChoices,
        p \in PensionChoices, s \in IsaChoices, h \in HouseChoices}

\* what the widgets' ranges accept, lines 13-39
Accepted(i, t) ==
    /\ DobAccepted(i.dob, t)
    /\ RetirementAccepted(i.retirement_date, t)
    /\ i.db_payout_age \in 50..70

NoCall == [present_value |-> Zero, monthly_contribution |-> Zero,
           annual_rate |-> Zero, months |-> 0, result |-> Zero]

Init ==
    /\ today \in TodayChoices
    /\ inputs \in {i \in InputSpace : Accepted(i, today)}
    /\ out = Script(inputs, today)
    /\ fv_call = NoCall

\* the user's edit leaves the widgets at i; Streamlit re-runs the script
Rerun(i) ==
    /\ i # inputs
    /\ Accepted(i, today)
    /\ inputs' = i
    /\ out' = Script(i, today)
    /\ UNCHANGED <<today, fv_call>>

SetDob == \E v \in DobChoices : Rerun([inputs EXCEPT !.dob = v])
SetRetirementDate ==
    \E v \in RetirementChoices : Rerun([inputs EXCEPT !.retirement_date = v])
SetPension == \E p \in PensionChoices : Rerun(WithPension(inputs, p))
SetDbIncome == \E v \in DbIncomeChoices : Rerun([inputs EXCEPT !.db_income = v])
SetDbPayoutAge ==
    \E v \in DbPayoutAgeChoices : Rerun([inputs EXCEPT !.db_payout_age = v])
SetIsa == \E p \in IsaChoices : Rerun(WithIsa(inputs, p))
SetHouse == \E h \in HouseChoices : Rerun(WithHouse(inputs, h))
SetDividends ==
    \E v \in DividendChoices : Rerun([inputs EXCEPT !.dividends_annual = v])

Next ==
    \/ SetDob
    \/ SetRetirementDate
    \/ SetPension
    \/ SetDbIncome
    \/ SetDbPayoutAge
    \/ SetIsa
    \/ SetHouse
    \/ SetDividends

Spec == Init /\ [][Next]_vars

----------------------------------------------------------------------------
(* future_value on its own: any arguments, lines 68-75                     *)

MaxMonths == 3

PresentValueChoices == {FromInt(0), FromInt(1000), FromInt(-500)}
ContributionChoices == {FromInt(0), FromInt(100), FromInt(-50)}
MonthChoices == (-MaxMonths)..MaxMonths

Call(present_value, monthly_contribution, annual_rate, months) ==
    [present_value |-> present_value,
     monthly_contribution |-> monthly_contribution,
     annual_rate |-> annual_rate,
     months |-> months,
     result |-> future_value(present_value, monthly_contribution, annual_rate, months)]

Calls ==
    {Call(pv, c, r, m) : pv \in PresentValueChoices, c \in ContributionChoices,
                         r \in AnnualRates, m \in MonthChoices}

FVInit ==
    /\ today = MkDate(2026, 1, 28)
    /\ inputs = <<>>
    /\ out = <<>>
    /\ fv_call \in Calls

CallFutureValue ==
    /\ \E pv \in PresentValueChoices, c \in ContributionChoices,
          r \in AnnualRates, m \in MonthChoices :
           fv_call' = Call(pv, c, r, m)
    /\ UNCHANGED <<today, inputs, out>>

FVNext == CallFutureValue

SpecFV == FVInit /\ [][FVNext]_vars

----------------------------------------------------------------------------
(* The elapsed-time step on its own: any two dates, lines 78-85            *)

DateChoices ==
    {MkDate(y, m, d) : y \in 2025..2027, m \in {1, 2, 12}, d \in {1, 28, 31}}
        \ {MkDate(y, 2, 31) : y \in 2025..2027}

Months(t, retirement_date) ==
    [months_to_retirement |-> months_to_retirement(retirement_date, t)]

DatesInit ==
    /\ today \in DateChoices
    /\ inputs \in [retirement_date : DateChoices]
    /\ out = Months(today, inputs.retirement_date)
    /\ fv_call = NoCall

ComputeMonths ==
    /\ \E t \in DateChoices, d \in DateChoices :
        /\ today' = t
        /\ inputs' = [retirement_date |-> d]
        /\ out' = Months(t, d)
    /\ UNCHANGED fv_call

DatesNext == ComputeMonths

SpecDates == DatesInit /\ [][DatesNext]_vars

----------------------------------------------------------------------------
(* Properties of the tax step, under Spec                                  *)

\* the part of income g that lies in the band from lo to hi
BandPortion(g, lo, hi) == RMax(Zero, RSub(RMin(g, FromInt(hi)), FromInt(lo)))

\* the part of income g that lies above lo
PortionAbove(g, lo) == RMax(Zero, RSub(g, FromInt(lo)))

\* the band table: rate times the portion of g in each band, summed
BandTax(g) ==
    RAdd(RAdd(RAdd(RMul(Rat(0, 100), BandPortion(g, 0, 12570)),
                   RMul(Rat(20, 100), BandPortion(g, 12570, 50270))),
              RMul(Rat(40, 100), BandPortion(g, 50270, 125140))),
         RMul(Rat(45, 100), PortionAbove(g, 125140)))

\* C1: the tax is the sum over the four bands of rate times the portion of the
\* aggregate gross income inside the band; it is 0 at 12,570, 7,540 at 50,270
\* and 37,488 at 125,140.
C1_TaxIsSumOverBands ==
    /\ out.tax = BandTax(out.total_gross_income)
    /\ out.total_gross_income = FromInt(12570) => out.tax = FromInt(0)
    /\ out.total_gross_income = FromInt(50270) => out.tax = FromInt(7540)
    /\ out.total_gross_income = FromInt(125140) => out.tax = FromInt(37488)

\* a gross income exactly at the top of band 3
C1_Witness ==
    /\ out.total_gross_income = FromInt(125140)
    /\ out.tax = FromInt(37488)

Sources == {"pension", "isa", "equity", "db", "dividends"}

SumOverSources(f) ==
    RAdd(RAdd(RAdd(RAdd(f["pension"], f["isa"]), f["equity"]), f["db"]), f["dividends"])

\* the per-source nets sum to the total net income, which is gross less tax
NetsSumToNetIncome ==
    /\ out.total_gross_income = SumOverSources(out.gross)
    /\ out.net_income = RSub(out.total_gross_income, out.tax)
    /\ SumOverSources(out.net) = out.net_income

\* C2: the five per-source nets sum to the total net income (gross less tax,
\* gross the sum of the five sources); when the total gross income is 0 all
\* five nets are 0.
C2_NetsSumAndZeroGrossGivesZeroNets ==
    /\ NetsSumToNetIncome
    /\ out.total_gross_income = Zero => \A s \in Sources : out.net[s] = Zero

\* C10: when the gross income rises from one run to the next, from a
\* non-negative income, neither the tax nor the net income falls.
C10_TaxAndNetMonotone ==
    [][(RLe(Zero, out.total_gross_income)
        /\ RLe(out.total_gross_income, out'.total_gross_income))
       => (RLe(out.tax, out'.tax) /\ RLe(out.net_income, out'.net_income))]_vars

\* an income above the top band boundary, with more net than at the boundary
C10_Witness ==
    /\ RLt(FromInt(125140), out.total_gross_income)
    /\ RLt(FromInt(125140 - 37488), out.net_income)

----------------------------------------------------------------------------
(* Properties of the equity and defined-benefit steps, under Spec          *)

\* the whole years completed from dob to day d (dob <= d): the anniversary
\* of a 29 February falls on 28 February in a common year
CompletedYears(dob, d) ==
    CHOOSE k \in 0..(2099 - 1900) :
        /\ DateLe(AddMonths(dob, 12 * k), d)
        /\ DateLt(d, AddMonths(dob, 12 * (k + 1)))

\* C4: the defined-benefit income entering gross income is 0 when the whole
\* years from date of birth to retirement are fewer than db_payout_age, and
\* db_income otherwise.
C4_DbIncomeByPayoutAge ==
    /\ out.age_at_retirement = CompletedYears(inputs.dob, inputs.retirement_date)
    /\ out.gross.db =
         FromInt(IF CompletedYears(inputs.dob, inputs.retirement_date)
                        < inputs.db_payout_age
                 THEN 0 ELSE inputs.db_income)

\* retirement on the very anniversary that reaches the payout age
C4_Witness ==
    /\ out.age_at_retirement = inputs.db_payout_age
    /\ inputs.retirement_date.month = inputs.dob.month
    /\ inputs.db_income # 0
    /\ out.gross.db = FromInt(inputs.db_income)

\* C5: equity_released is never negative; it is house value less target price
\* less mortgage when that is positive and 0 otherwise.
C5_EquityNeverNegative ==
    LET e == inputs.current_house_value - inputs.future_house_price
                 - inputs.mortgage_outstanding
    IN  /\ out.equity_released >= 0
        /\ e > 0 => out.equity_released = e
        /\ e <= 0 => out.equity_released = 0

\* negative inputs whose difference is negative
C5_Witness ==
    /\ inputs.current_house_value < 0
    /\ inputs.future_house_price < 0
    /\ inputs.current_house_value - inputs.future_house_price
           - inputs.mortgage_outstanding < 0
    /\ out.equity_released = 0

\* every run of the application passes future_value a month count >= 0
MonthsNeverNegative == out.months_to_retirement >= 0

----------------------------------------------------------------------------
(* Properties of future_value, under SpecFV                                *)

NonNegative(a) == RLe(Zero, a)

\* C3: called with months <= 0, future_value returns the present value.
C3_NonPositiveMonthsReturnPresentValue ==
    fv_call.months <= 0 => fv_call.result = fv_call.present_value

\* C6: with months = 0, a non-negative present value and contribution and a
\* rate above -1, future_value returns exactly the present value.
C6_ZeroMonthsReturnPresentValue ==
    (/\ fv_call.months = 0
     /\ NonNegative(fv_call.present_value)
     /\ NonNegative(fv_call.monthly_contribution)
     /\ RLt(FromInt(-1), fv_call.annual_rate))
    => fv_call.result = fv_call.present_value

\* zero months on the branch that divides by the monthly rate
C6_Witness ==
    /\ fv_call.months = 0
    /\ RLt(Zero, fv_call.present_value)
    /\ RLt(Zero, fv_call.monthly_contribution)
    /\ fv_call.annual_rate # Zero
    /\ fv_call.result = fv_call.present_value

\* C7: for a non-negative present value and contribution and a rate >= 0, a
\* call with at least as many months returns at least as much.
C7_MonotoneInMonths ==
    [][(/\ fv_call'.present_value = fv_call.present_value
        /\ fv_call'.monthly_contribution = fv_call.monthly_contribution
        /\ fv_call'.annual_rate = fv_call.annual_rate
        /\ NonNegative(fv_call.present_value)
        /\ NonNegative(fv_call.monthly_contribution)
        /\ NonNegative(fv_call.annual_rate)
        /\ fv_call.months <= fv_call'.months)
       => RLe(fv_call.result, fv_call'.result)]_vars

\* a growing pot: positive value, contribution, rate and months
C7_Witness ==
    /\ RLt(Zero, fv_call.present_value)
    /\ RLt(Zero, fv_call.monthly_contribution)
    /\ RLt(Zero, fv_call.annual_rate)
    /\ fv_call.months = MaxMonths
    /\ RLt(fv_call.present_value, fv_call.result)

\* C8: at an annual rate of 0 the monthly rate is exactly 0 and the result is
\* present_value + monthly_contribution * months, for every month count.
C8_ZeroRateIsAdditive ==
    fv_call.annual_rate = Zero =>
        /\ RSub(TwelfthRoot(RAdd(One, fv_call.annual_rate)), One) = Zero
        /\ fv_call.result =
             RAdd(fv_call.present_value,
                  RMul(fv_call.monthly_contribution, FromInt(fv_call.months)))

\* a zero rate with contributions over a positive number of months
C8_Witness ==
    /\ fv_call.annual_rate = Zero
    /\ fv_call.monthly_contribution # Zero
    /\ fv_call.months > 0
    /\ fv_call.result # fv_call.present_value

----------------------------------------------------------------------------
(* Properties of the elapsed-time step, under SpecDates                    *)

\* C9: months_to_retirement is negative exactly when the retirement date is
\* strictly earlier than today; for every retirement date the widget accepts
\* (retirement_date >= today) it is >= 0.
C9_NegativeIffRetirementInPast ==
    /\ out.months_to_retirement < 0 <=> DateLt(inputs.retirement_date, today)
    /\ RetirementAccepted(inputs.retirement_date, today)
           => out.months_to_retirement >= 0

\* an accepted date in a later month but on an earlier day of the month
C9_Witness ==
    /\ RetirementAccepted(inputs.retirement_date, today)
    /\ inputs.retirement_date.day < today.day
    /\ out.months_to_retirement = 0

============================================================================
